---- MODULE Spec2Model ----
(***************************************************************************)
(* scifont: font resolution, bundled-font registration and the matplotlib  *)
(* rcParams written by use().  Python strings are TLA+ strings; the string *)
(* methods the code calls (strip, lower, startswith, in, sorted) are       *)
(* computed on the characters of each string, given by Chars.              *)
(***************************************************************************)
EXTENDS Integers, Sequences, FiniteSets, TLC

VARIABLES
    rcParams,                  \* matplotlib.rcParams, the keys scifont writes or reads
    font_availability_cache,   \* _font_availability_cache: sorted name tuple -> bool
    registered_bundled_fonts,  \* _registered_bundled_fonts: set of font file paths
    ttflist,                   \* fm.fontManager.ttflist, as the sequence of entry names
    host,                      \* the environment: font manager, fonts directory, fontTools
    retina,                    \* whether set_matplotlib_formats('retina') has been called
    last,                      \* the last call: its arguments and its outcome
    calls                      \* the number of calls made

vars == <<rcParams, font_availability_cache, registered_bundled_fonts, ttflist,
          host, retina, last, calls>>

---------------------------------------------------------------------------
(* Python str                                                              *)

\* The characters of every string the model uses.
Chars ==
     "nature" :> <<"n", "a", "t", "u", "r", "e">> @@
     "cell" :> <<"c", "e", "l", "l">> @@
     "science" :> <<"s", "c", "i", "e", "n", "c", "e">> @@
     "ieee" :> <<"i", "e", "e", "e">> @@
     "zh" :> <<"z", "h">> @@
     "xyz" :> <<"x", "y", "z">> @@
     " Nature " :> <<" ", "N", "a", "t", "u", "r", "e", " ">> @@
     "Nature" :> <<"N", "a", "t", "u", "r", "e">> @@
     "IEEE" :> <<"I", "E", "E", "E">> @@
     "" :> <<>> @@
     "  " :> <<" ", " ">> @@
     "\t" :> <<"\t">> @@
     "Arial" :> <<"A", "r", "i", "a", "l">> @@
     "Helvetica" :> <<"H", "e", "l", "v", "e", "t", "i", "c", "a">> @@
     "Arimo" :> <<"A", "r", "i", "m", "o">> @@
     "DejaVu Sans" :> <<"D", "e", "j", "a", "V", "u", " ", "S", "a", "n", "s">> @@
     "sans-serif" :> <<"s", "a", "n", "s", "-", "s", "e", "r", "i", "f">> @@
     "Times New Roman" :> <<"T", "i", "m", "e", "s", " ", "N", "e", "w", " ", "R", "o", "m", "a", "n">> @@
     "Times" :> <<"T", "i", "m", "e", "s">> @@
     "Tinos" :> <<"T", "i", "n", "o", "s">> @@
     "DejaVu Serif" :> <<"D", "e", "j", "a", "V", "u", " ", "S", "e", "r", "i", "f">> @@
     "serif" :> <<"s", "e", "r", "i", "f">> @@
     "Microsoft YaHei" :> <<"M", "i", "c", "r", "o", "s", "o", "f", "t", " ", "Y", "a", "H", "e", "i">> @@
     "SimHei" :> <<"S", "i", "m", "H", "e", "i">> @@
     "SimSun" :> <<"S", "i", "m", "S", "u", "n">> @@
     "KaiTi" :> <<"K", "a", "i", "T", "i">> @@
     "PingFang SC" :> <<"P", "i", "n", "g", "F", "a", "n", "g", " ", "S", "C">> @@
     "STHeiti" :> <<"S", "T", "H", "e", "i", "t", "i">> @@
     "STSong" :> <<"S", "T", "S", "o", "n", "g">> @@
     "Arial Unicode MS" :> <<"A", "r", "i", "a", "l", " ", "U", "n", "i", "c", "o", "d", "e", " ", "M", "S">> @@
     "Noto Sans CJK SC" :> <<"N", "o", "t", "o", " ", "S", "a", "n", "s", " ", "C", "J", "K", " ", "S", "C">> @@
     "Source Han Sans SC" :> <<"S", "o", "u", "r", "c", "e", " ", "H", "a", "n", " ", "S", "a", "n", "s", " ", "S", "C">> @@
     "WenQuanYi Micro Hei" :> <<"W", "e", "n", "Q", "u", "a", "n", "Y", "i", " ", "M", "i", "c", "r", "o", " ", "H", "e", "i">> @@
     "WenQuanYi Zen Hei" :> <<"W", "e", "n", "Q", "u", "a", "n", "Y", "i", " ", "Z", "e", "n", " ", "H", "e", "i">> @@
     "Noto Sans SC" :> <<"N", "o", "t", "o", " ", "S", "a", "n", "s", " ", "S", "C">> @@
     "Noto Sans SC Variable" :> <<"N", "o", "t", "o", " ", "S", "a", "n", "s", " ", "S", "C", " ", "V", "a", "r", "i", "a", "b", "l", "e">> @@
     "Noto Sans SC Variable Font" :> <<"N", "o", "t", "o", " ", "S", "a", "n", "s", " ", "S", "C", " ", "V", "a", "r", "i", "a", "b", "l", "e", " ", "F", "o", "n", "t">> @@
     "NotoSansSC" :> <<"N", "o", "t", "o", "S", "a", "n", "s", "S", "C">> @@
     "Noto Sans SC Medium" :> <<"N", "o", "t", "o", " ", "S", "a", "n", "s", " ", "S", "C", " ", "M", "e", "d", "i", "u", "m">> @@
     " Arimo " :> <<" ", "A", "r", "i", "m", "o", " ">> @@
     "Lato" :> <<"L", "a", "t", "o">> @@
     "Arimo-Regular" :> <<"A", "r", "i", "m", "o", "-", "R", "e", "g", "u", "l", "a", "r">> @@
     "Arimo-Bold" :> <<"A", "r", "i", "m", "o", "-", "B", "o", "l", "d">> @@
     "Tinos-Regular" :> <<"T", "i", "n", "o", "s", "-", "R", "e", "g", "u", "l", "a", "r">> @@
     "NotoSansSC-VariableFont_wght" :> <<"N", "o", "t", "o", "S", "a", "n", "s", "S", "C", "-", "V", "a", "r", "i", "a", "b", "l", "e", "F", "o", "n", "t", "_", "w", "g", "h", "t">> @@
     "Lato-Regular" :> <<"L", "a", "t", "o", "-", "R", "e", "g", "u", "l", "a", "r">> @@
     "noto" :> <<"n", "o", "t", "o">> @@
     "sans" :> <<"s", "a", "n", "s">> @@
     "sc" :> <<"s", "c">>

Text == DOMAIN Chars

\* Python's None where a str is expected (an element of font_names).
None == "<None>"

\* Characters in code point order (the ones that occur in Text).
AsciiOrder ==
    <<"\t", " ", "-",
      "A", "B", "C", "D", "E", "F", "G", "H", "I", "J", "K", "L", "M",
      "N", "O", "P", "Q", "R", "S", "T", "U", "V", "W", "X", "Y", "Z",
      "_",
      "a", "b", "c", "d", "e", "f", "g", "h", "i", "j", "k", "l", "m",
      "n", "o", "p", "q", "r", "s", "t", "u", "v", "w", "x", "y", "z">>

Ord(c) == CHOOSE i \in 1..Len(AsciiOrder) : AsciiOrder[i] = c

UpperLetters ==
    <<"A", "B", "C", "D", "E", "F", "G", "H", "I", "J", "K", "L", "M",
      "N", "O", "P", "Q", "R", "S", "T", "U", "V", "W", "X", "Y", "Z">>

LowerLetters ==
    <<"a", "b", "c", "d", "e", "f", "g", "h", "i", "j", "k", "l", "m",
      "n", "o", "p", "q", "r", "s", "t", "u", "v", "w", "x", "y", "z">>

Whitespace == {" ", "\t"}

\* str.lower(), on characters
LowerChar(c) ==
    IF \E i \in 1..Len(UpperLetters) : UpperLetters[i] = c
    THEN LowerLetters[CHOOSE i \in 1..Len(UpperLetters) : UpperLetters[i] = c]
    ELSE c

LowerChars(cs) == [i \in 1..Len(cs) |-> LowerChar(cs[i])]

\* str.strip(), on characters
RECURSIVE LStripChars(_)
LStripChars(cs) ==
    IF cs # <<>> /\ Head(cs) \in Whitespace THEN LStripChars(Tail(cs)) ELSE cs

RECURSIVE RStripChars(_)
RStripChars(cs) ==
    IF cs # <<>> /\ cs[Len(cs)] \in Whitespace
    THEN RStripChars(SubSeq(cs, 1, Len(cs) - 1))
    ELSE cs

StripChars(cs) == RStripChars(LStripChars(cs))

\* The string with the given characters.
Str(cs) == CHOOSE s \in Text : Chars[s] = cs

StripTable == [s \in Text |-> Str(StripChars(Chars[s]))]

\* s.strip()
Strip(s) == StripTable[s]

\* s.lower().strip()
LowerStrip(s) == Str(StripChars(LowerChars(Chars[s])))

\* a < b on str: lexicographic by code point
RECURSIVE CharsLess(_, _)
CharsLess(a, b) ==
    IF b = <<>> THEN FALSE
    ELSE IF a = <<>> THEN TRUE
    ELSE IF Head(a) = Head(b) THEN CharsLess(Tail(a), Tail(b))
    ELSE Ord(Head(a)) < Ord(Head(b))

StrLess(a, b) == CharsLess(Chars[a], Chars[b])

\* insertion of x into an ascending sequence, after its equals
RECURSIVE Insert(_, _)
Insert(x, seq) ==
    IF seq = <<>> THEN <<x>>
    ELSE IF StrLess(x, Head(seq)) THEN <<x>> \o seq
    ELSE <<Head(seq)>> \o Insert(x, Tail(seq))

\* sorted(names)
RECURSIVE Sorted(_)
Sorted(names) ==
    IF names = <<>> THEN <<>> ELSE Insert(names[Len(names)], Sorted(SubSeq(names, 1, Len(names) - 1)))

\* s.startswith(prefix)
StartsWith(s, prefix) ==
    /\ Len(Chars[prefix]) <= Len(Chars[s])
    /\ SubSeq(Chars[s], 1, Len(Chars[prefix])) = Chars[prefix]

\* sub in s.lower()
InLower(sub, s) ==
    LET cs == LowerChars(Chars[s])
        n  == Len(Chars[sub])
    IN  \E i \in 0..(Len(cs) - n) : SubSeq(cs, i + 1, i + n) = Chars[sub]

\* the elements of a sequence
Range(seq) == {seq[i] : i \in 1..Len(seq)}

\* seq[:n]
Take(seq, n) == SubSeq(seq, 1, IF Len(seq) < n THEN Len(seq) ELSE n)

---------------------------------------------------------------------------
(* The host: matplotlib's font manager and the bundled fonts directory     *)

\* A file FONT_DIR.glob("*.ttf") yields: its stem, whether it is a regular
\* file, what fontManager.addfont does with it ("ok", or the exception it
\* raises), its family name (nameID 1) and its full name (nameID 4).
FontFile(stem, is_file, load, family) ==
    [stem |-> stem, is_file |-> is_file, load |-> load,
     family |-> family, full_name |-> family]

NOTOSANSSC_STEM == "NotoSansSC-VariableFont_wght"

\* fm.fontManager is usable: hasattr(fm, 'fontManager') and it is not None
FontManagerInitialized == host.fm # "none"

\* {f.name for f in fm.fontManager.ttflist}; raises when the manager is broken
TtflistRaises == host.fm = "broken"

\* fm.fontManager.addfont(path): appends the font's entry, or raises
AddFontRaises(font_path) == host.fm # "ok" \/ font_path.load # "ok"

AddFont(list, font_path) == Append(list, font_path.family)

\* The module state a call works on, with the number of times it has asked
\* the host for its font list (fm.fontManager.ttflist), answered or not.
Module(cache, registered, list) ==
    [cache |-> cache, registered |-> registered, ttflist |-> list, enums |-> 0]

EmptyCache == [k \in {} |-> FALSE]

\* a Python list of names / a value that is not a list
List(items) == [is_list |-> TRUE, items |-> items]

---------------------------------------------------------------------------
(* _check_font_available                                                   *)

\* [str(f).strip() for f in font_names if f is not None]
RECURSIVE NormalizeNames(_)
NormalizeNames(items) ==
    IF items = <<>> THEN <<>>
    ELSE IF Head(items) = None THEN NormalizeNames(Tail(items))
    ELSE <<Strip(Head(items))>> \o NormalizeNames(Tail(items))

\* CacheKey with the sort forgotten: the key keeps the caller's order.
CacheKey_Unsorted(names) == names

\* cache_key = tuple(sorted(font_names))
CacheKey(names) == Sorted(names)

Answer(m, result, cached) == [m |-> m, result |-> result, cached |-> cached]

\* CheckFontAvailable that stores the False of a failed look at the host too.
CheckFontAvailable_CachesFailSoft(m, font_names) ==
    IF ~font_names.is_list \/ Len(font_names.items) = 0
    THEN Answer(m, FALSE, FALSE)
    ELSE
    LET names == NormalizeNames(font_names.items) IN
    IF Len(names) = 0 THEN Answer(m, FALSE, FALSE)
    ELSE
    LET cache_key == CacheKey(names) IN
    IF cache_key \in DOMAIN m.cache THEN Answer(m, m.cache[cache_key], TRUE)
    ELSE IF ~FontManagerInitialized
    THEN Answer([m EXCEPT !.cache = (cache_key :> FALSE) @@ @], FALSE, FALSE)
    ELSE IF TtflistRaises
    THEN Answer([m EXCEPT !.cache = (cache_key :> FALSE) @@ @, !.enums = @ + 1],
                FALSE, FALSE)
    ELSE
    LET available_fonts == Range(m.ttflist)
        result == \E i \in 1..Len(names) : names[i] \in available_fonts
    IN  Answer([m EXCEPT !.cache = (cache_key :> result) @@ @,
                         !.enums = @ + 1],
               result, FALSE)

CheckFontAvailable(m, font_names) ==
    IF ~font_names.is_list \/ Len(font_names.items) = 0
    THEN Answer(m, FALSE, FALSE)
    ELSE
    LET names == NormalizeNames(font_names.items) IN
    IF Len(names) = 0 THEN Answer(m, FALSE, FALSE)
    ELSE
    LET cache_key == CacheKey(names) IN
    IF cache_key \in DOMAIN m.cache THEN Answer(m, m.cache[cache_key], TRUE)
    ELSE IF ~FontManagerInitialized THEN Answer(m, FALSE, FALSE)
    ELSE IF TtflistRaises THEN Answer([m EXCEPT !.enums = @ + 1], FALSE, FALSE)
    ELSE
    LET available_fonts == Range(m.ttflist)
        result == \E i \in 1..Len(names) : names[i] \in available_fonts
    IN  Answer([m EXCEPT !.cache = (cache_key :> result) @@ @,
                         !.enums = @ + 1],
               result, FALSE)

---------------------------------------------------------------------------
(* _register_bundled_fonts                                                 *)

FontPrefixes(font_family) ==
    IF font_family = "sans-serif" THEN <<"Arimo">>
    ELSE IF font_family = "serif" THEN <<"Tinos">>
    ELSE IF font_family = "chinese" THEN <<"NotoSansSC">>
    ELSE <<"Arimo", "Tinos", "NotoSansSC">>

MatchesFamily(font_path, font_prefixes) ==
    \E i \in 1..Len(font_prefixes) : StartsWith(font_path.stem, font_prefixes[i])

\* RegisterOne without the test for an already registered path.
RegisterOne_NoSkip(acc, font_path, font_prefixes) ==
    IF ~MatchesFamily(font_path, font_prefixes) THEN acc
    ELSE IF ~font_path.is_file THEN acc
    ELSE IF AddFontRaises(font_path) THEN acc
    ELSE [acc EXCEPT !.m.ttflist = AddFont(@, font_path),
                     !.m.registered = @ \cup {font_path.stem},
                     !.registered_count = @ + 1]

\* One iteration of the loop over FONT_DIR.glob("*.ttf").
RegisterOne(acc, font_path, font_prefixes) ==
    IF ~MatchesFamily(font_path, font_prefixes) THEN acc
    ELSE IF font_path.stem \in acc.m.registered
    THEN [acc EXCEPT !.skipped_count = @ + 1]
    ELSE IF ~font_path.is_file THEN acc
    ELSE IF AddFontRaises(font_path) THEN acc
    ELSE [acc EXCEPT !.m.ttflist = AddFont(@, font_path),
                     !.m.registered = @ \cup {font_path.stem},
                     !.registered_count = @ + 1]

\* RegisterLoop with the try around the whole loop: the first file that
\* fails to load ends the scan.
RECURSIVE RegisterLoop_StopsAtError(_, _, _)
RegisterLoop_StopsAtError(acc, files, font_prefixes) ==
    IF files = <<>> THEN acc
    ELSE IF /\ MatchesFamily(Head(files), font_prefixes)
            /\ Head(files).stem \notin acc.m.registered
            /\ Head(files).is_file
            /\ AddFontRaises(Head(files))
    THEN acc
    ELSE RegisterLoop_StopsAtError(RegisterOne(acc, Head(files), font_prefixes),
                                   Tail(files), font_prefixes)

RECURSIVE RegisterLoop(_, _, _)
RegisterLoop(acc, files, font_prefixes) ==
    IF files = <<>> THEN acc
    ELSE RegisterLoop(RegisterOne(acc, Head(files), font_prefixes),
                      Tail(files), font_prefixes)

\* ClearFontCache that leaves the cache as it is.
ClearFontCache_Keeps(m) == m

\* _clear_font_cache
ClearFontCache(m) == [m EXCEPT !.cache = EmptyCache]

RegisterBundledFonts(m, font_family) ==
    LET nothing == [m |-> m, registered_count |-> 0, skipped_count |-> 0] IN
    IF ~host.dir_exists THEN nothing
    ELSE IF ~FontManagerInitialized THEN nothing
    ELSE
    LET done == RegisterLoop(nothing, host.font_dir, FontPrefixes(font_family)) IN
    IF done.registered_count > 0
    THEN [done EXCEPT !.m = ClearFontCache(@)]
    ELSE done

---------------------------------------------------------------------------
(* _get_font_name_from_file, _get_bundled_notosanssc_name,                 *)
(* _get_chinese_fonts                                                      *)

\* The family name (nameID 1) read with fontTools, else the full name
\* (nameID 4), else None; None too when fontTools or the file cannot be read.
GetFontNameFromFile(font_path) ==
    IF ~host.fontTools \/ ~font_path.is_file \/ font_path.load # "ok" THEN None
    ELSE IF font_path.family # None THEN font_path.family
    ELSE font_path.full_name

notosanssc_candidates ==
    <<"Noto Sans SC", "Noto Sans SC Variable", "Noto Sans SC Variable Font", "NotoSansSC">>

\* The values _get_bundled_notosanssc_name can return: one, except that the
\* partial match returns whichever matching name the set iteration meets first.
GetBundledNotosansscName(m) ==
    LET at_path   == {i \in 1..Len(host.font_dir) : host.font_dir[i].stem = NOTOSANSSC_STEM}
        font_name == IF host.dir_exists /\ at_path # {}
                     THEN GetFontNameFromFile(host.font_dir[CHOOSE i \in at_path : TRUE])
                     ELSE None
    IN
    IF font_name # None THEN {font_name}
    ELSE IF ~FontManagerInitialized THEN {None}
    ELSE IF TtflistRaises THEN {None}
    ELSE
    LET available_fonts == Range(m.ttflist)
        exact   == SelectSeq(notosanssc_candidates, LAMBDA c : c \in available_fonts)
        partial == {n \in available_fonts :
                       InLower("noto", n) /\ InLower("sans", n) /\ InLower("sc", n)}
    IN  IF exact # <<>> THEN {Head(exact)}
        ELSE IF partial # {} THEN partial
        ELSE {None}

chinese_font_candidates ==
    <<"Microsoft YaHei", "SimHei", "SimSun", "KaiTi",
      "PingFang SC", "STHeiti", "STSong", "Arial Unicode MS",
      "Noto Sans CJK SC", "Source Han Sans SC", "WenQuanYi Micro Hei", "WenQuanYi Zen Hei">>

\* the number of Chinese fonts _get_chinese_fonts returns at most
MaxChineseFonts == 2

RECURSIVE ChineseLoop(_, _, _)
ChineseLoop(m, available_chinese_fonts, candidates) ==
    IF candidates = <<>> THEN [m |-> m, fonts |-> available_chinese_fonts]
    ELSE
    LET a == CheckFontAvailable(m, List(<<Head(candidates)>>)) IN
    IF a.result
    THEN LET found == Append(available_chinese_fonts, Head(candidates)) IN
         IF Len(found) >= MaxChineseFonts
         THEN [m |-> a.m, fonts |-> found]
         ELSE ChineseLoop(a.m, found, Tail(candidates))
    ELSE ChineseLoop(a.m, available_chinese_fonts, Tail(candidates))

GetChineseFonts(m) == ChineseLoop(m, <<>>, chinese_font_candidates)

---------------------------------------------------------------------------
(* rcParams                                                                *)

\* matplotlib's defaults for the keys scifont touches.  Sizes and widths are
\* written as Python writes the literal; nothing computes with them.
DefaultRcParams ==
    "figure.dpi" :> 100 @@ "savefig.dpi" :> "figure" @@
    "axes.unicode_minus" :> TRUE @@ "axes.grid" :> FALSE @@
    "xtick.direction" :> "out" @@ "ytick.direction" :> "out" @@
    "xtick.major.size" :> "3.5" @@ "ytick.major.size" :> "3.5" @@
    "xtick.minor.size" :> "2.0" @@ "ytick.minor.size" :> "2.0" @@
    "font.family" :> "sans-serif" @@
    "font.sans-serif" :> <<"DejaVu Sans", "Bitstream Vera Sans",
                           "Computer Modern Sans Serif", "Lucida Grande">> @@
    "font.serif" :> <<"DejaVu Serif", "Bitstream Vera Serif",
                      "Computer Modern Roman", "New Century Schoolbook">> @@
    "font.size" :> "10.0" @@ "axes.labelsize" :> "medium" @@
    "xtick.labelsize" :> "medium" @@ "ytick.labelsize" :> "medium" @@
    "legend.fontsize" :> "medium" @@
    "axes.linewidth" :> "0.8" @@ "lines.linewidth" :> "1.5" @@
    "grid.alpha" :> "1.0" @@ "grid.linewidth" :> "0.8" @@ "grid.linestyle" :> "-" @@
    "pdf.fonttype" :> 3 @@ "ps.fonttype" :> 3 @@ "svg.fonttype" :> "path"

\* ConfigureVectorOutput without the PostScript line.
ConfigureVectorOutput_PdfOnly(rc) ==
    [rc EXCEPT !["pdf.fonttype"] = 42,
               !["svg.fonttype"] = "none"]

\* _configure_vector_output
ConfigureVectorOutput(rc) ==
    [rc EXCEPT !["pdf.fonttype"] = 42,
               !["ps.fonttype"] = 42,
               !["svg.fonttype"] = "none"]

\* _configure_jupyter_retina: in a notebook kernel, set_matplotlib_formats('retina')
ConfigureJupyterRetina(r) == IF host.ipython = "notebook" THEN TRUE ELSE r

\* BaseConfiguration without the line that turns the grid off.
BaseConfiguration_KeepsGrid(rc, dpi) ==
    [rc EXCEPT !["figure.dpi"] = dpi,
               !["savefig.dpi"] = dpi,
               !["axes.unicode_minus"] = FALSE,
               !["xtick.direction"] = "in",
               !["ytick.direction"] = "in",
               !["xtick.major.size"] = "3.5",
               !["ytick.major.size"] = "3.5",
               !["xtick.minor.size"] = "2.0",
               !["ytick.minor.size"] = "2.0"]

\* use, step 3
BaseConfiguration(rc, dpi) ==
    [rc EXCEPT !["figure.dpi"] = dpi,
               !["savefig.dpi"] = dpi,
               !["axes.unicode_minus"] = FALSE,
               !["axes.grid"] = FALSE,
               !["xtick.direction"] = "in",
               !["ytick.direction"] = "in",
               !["xtick.major.size"] = "3.5",
               !["ytick.major.size"] = "3.5",
               !["xtick.minor.size"] = "2.0",
               !["ytick.minor.size"] = "2.0"]

\* the size and line-width lines of a style's branch in step 4
Sizes(rc, font_size, labelsize, ticksize, legendsize, axes_linewidth) ==
    [rc EXCEPT !["font.size"] = font_size,
               !["axes.labelsize"] = labelsize,
               !["xtick.labelsize"] = ticksize,
               !["ytick.labelsize"] = ticksize,
               !["legend.fontsize"] = legendsize,
               !["axes.linewidth"] = axes_linewidth,
               !["lines.linewidth"] = "1.0"]

---------------------------------------------------------------------------
(* use                                                                     *)

\* A Python value passed as style or dpi: its type and, for a str, the text,
\* for a number, ten times its value (one decimal place), or nan / inf.
PyStr(s)        == [type |-> "str", s |-> s, tenths |-> 0]
PyInt(n)        == [type |-> "int", s |-> "", tenths |-> 10 * n]
PyFloat(tenths) == [type |-> "float", s |-> "", tenths |-> tenths]
PyFloatNaN      == [type |-> "float", s |-> "nan", tenths |-> 0]
PyFloatInf      == [type |-> "float", s |-> "inf", tenths |-> 0]
PyBool(b)       == [type |-> "bool", s |-> "", tenths |-> IF b THEN 10 ELSE 0]
PyNone          == [type |-> "NoneType", s |-> "", tenths |-> 0]

\* IntOf as round(dpi): to the nearest integer.
IntOf_Rounded(dpi) ==
    IF dpi.tenths >= 0 THEN (dpi.tenths + 5) \div 10 ELSE -((5 - dpi.tenths) \div 10)

\* int(dpi): truncation toward zero
IntOf(dpi) ==
    IF dpi.tenths >= 0 THEN dpi.tenths \div 10 ELSE -((-dpi.tenths) \div 10)

MIN_DPI == 50
MAX_DPI == 2000

\* Validate without the upper end of the dpi range.
Validate_NoUpperBound(style, dpi) ==
    IF style.type # "str" THEN "TypeError"
    ELSE IF LowerStrip(style.s) = "" THEN "ValueError"
    ELSE IF dpi.type \notin {"int", "float", "bool"} THEN "TypeError"
    ELSE IF dpi.s = "nan" THEN "ValueError"
    ELSE IF dpi.s = "inf" THEN "OverflowError"
    ELSE IF IntOf(dpi) < MIN_DPI THEN "ValueError"
    ELSE "none"

\* The exception use raises while validating, or "none".
Validate(style, dpi) ==
    IF style.type # "str" THEN "TypeError"
    ELSE IF LowerStrip(style.s) = "" THEN "ValueError"
    ELSE IF dpi.type \notin {"int", "float", "bool"} THEN "TypeError"
    ELSE IF dpi.s = "nan" THEN "ValueError"
    ELSE IF dpi.s = "inf" THEN "OverflowError"
    ELSE IF IntOf(dpi) < MIN_DPI \/ IntOf(dpi) > MAX_DPI THEN "ValueError"
    ELSE "none"

\* What step 1 leaves: the module state, the probe's answer as step 4 reads
\* it, and the family _register_bundled_fonts was called for (None: not called).
Probe(m, system_fonts_available, font_family) ==
    [m |-> m, system_fonts_available |-> system_fonts_available,
     font_family |-> font_family]

\* ResolveFonts that registers every bundled family when a probe fails.
ResolveFonts_RegistersAll(m, style) ==
    IF style = "zh"
    THEN LET c == GetChineseFonts(m) IN
         IF Len(c.fonts) > 0 THEN Probe(c.m, FALSE, None)
         ELSE Probe(RegisterBundledFonts(c.m, "all").m, FALSE, "all")
    ELSE IF style = "ieee"
    THEN LET a == CheckFontAvailable(m, List(<<"Times New Roman", "Times">>)) IN
         IF a.result THEN Probe(a.m, TRUE, None)
         ELSE Probe(RegisterBundledFonts(a.m, "all").m, FALSE, "all")
    ELSE LET a == CheckFontAvailable(m, List(<<"Arial", "Helvetica">>)) IN
         IF a.result THEN Probe(a.m, TRUE, None)
         ELSE Probe(RegisterBundledFonts(a.m, "all").m, FALSE, "all")

\* use, step 1: probe the system fonts, register the bundled ones if needed
ResolveFonts(m, style) ==
    IF style = "zh"
    THEN LET c == GetChineseFonts(m) IN
         IF Len(c.fonts) > 0 THEN Probe(c.m, FALSE, None)
         ELSE Probe(RegisterBundledFonts(c.m, "chinese").m, FALSE, "chinese")
    ELSE IF style \in {"nature", "cell", "science"}
    THEN LET a == CheckFontAvailable(m, List(<<"Arial", "Helvetica">>)) IN
         IF a.result THEN Probe(a.m, TRUE, None)
         ELSE Probe(RegisterBundledFonts(a.m, "sans-serif").m, FALSE, "sans-serif")
    ELSE IF style = "ieee"
    THEN LET a == CheckFontAvailable(m, List(<<"Times New Roman", "Times">>)) IN
         IF a.result THEN Probe(a.m, TRUE, None)
         ELSE Probe(RegisterBundledFonts(a.m, "serif").m, FALSE, "serif")
    ELSE LET a == CheckFontAvailable(m, List(<<"Arial", "Helvetica">>)) IN
         IF a.result THEN Probe(a.m, TRUE, None)
         ELSE Probe(RegisterBundledFonts(a.m, "all").m, FALSE, "all")

Styled(m, rc) == [m |-> m, rc |-> rc]

\* FontList without the second probe: the bundled font is taken to be there.
FontList_NoRecheck(m, key, system_fonts_available, system_list, bundled, bundled_list, fallback, rc) ==
    IF system_fonts_available THEN Styled(m, [rc EXCEPT ![key] = system_list])
    ELSE Styled(m, [rc EXCEPT ![key] = bundled_list])

\* The font list of a sans-serif or serif branch of step 4: the system list, or
\* after a second probe the bundled font's list, or the fallback list.
FontList(m, key, system_fonts_available, system_list, bundled, bundled_list, fallback, rc) ==
    IF system_fonts_available THEN Styled(m, [rc EXCEPT ![key] = system_list])
    ELSE LET a == CheckFontAvailable(m, List(<<bundled>>)) IN
         IF a.result THEN Styled(a.m, [rc EXCEPT ![key] = bundled_list])
         ELSE Styled(a.m, [rc EXCEPT ![key] = fallback])

SansSerifList(m, system_fonts_available, rc) ==
    FontList(m, "font.sans-serif", system_fonts_available,
             <<"Arial", "Helvetica", "Arimo", "DejaVu Sans">>,
             "Arimo", <<"Arimo", "DejaVu Sans">>,
             <<"DejaVu Sans", "sans-serif">>,
             [rc EXCEPT !["font.family"] = "sans-serif"])

\* ApplyChinese that puts the fonts found in front of the list rcParams holds.
ApplyChinese_Prepends(m, rc) ==
    LET c == GetChineseFonts(m) IN
    IF c.fonts = <<>>
    THEN {Styled(c.m,
            Sizes([rc EXCEPT !["font.family"] = "sans-serif",
                             !["font.sans-serif"] =
                                 IF bundled_notosanssc # None
                                 THEN <<bundled_notosanssc>> \o @
                                 ELSE @],
                  "8", "9", "8", "7", "1.0")) :
          bundled_notosanssc \in GetBundledNotosansscName(c.m)}
    ELSE {Styled(c.m,
            Sizes([rc EXCEPT !["font.family"] = "sans-serif",
                             !["font.sans-serif"] = c.fonts \o @],
                  "8", "9", "8", "7", "1.0"))}

\* use, step 4, style 'zh'
ApplyChinese(m, rc) ==
    LET c == GetChineseFonts(m) IN
    IF c.fonts = <<>>
    THEN {Styled(c.m,
            Sizes([rc EXCEPT !["font.family"] = "sans-serif",
                             !["font.sans-serif"] =
                                 IF bundled_notosanssc # None
                                 THEN <<bundled_notosanssc, "DejaVu Sans", "sans-serif">>
                                 ELSE <<"DejaVu Sans", "sans-serif">>],
                  "8", "9", "8", "7", "1.0")) :
          bundled_notosanssc \in GetBundledNotosansscName(c.m)}
    ELSE {Styled(c.m,
            Sizes([rc EXCEPT !["font.family"] = "sans-serif",
                             !["font.sans-serif"] = c.fonts \o <<"DejaVu Sans", "sans-serif">>],
                  "8", "9", "8", "7", "1.0"))}

\* use, step 4, style 'nature'
ApplyNature(m, system_fonts_available, rc) ==
    LET f == SansSerifList(m, system_fonts_available, rc) IN
    Styled(f.m, Sizes(f.rc, "7", "8", "7", "6", "0.5"))

\* use, step 4, style 'cell'
ApplyCell(m, system_fonts_available, rc) ==
    LET f == SansSerifList(m, system_fonts_available, rc) IN
    Styled(f.m, Sizes(f.rc, "8", "9", "8", "7", "1.0"))

\* use, step 4, style 'science'
ApplyScience(m, system_fonts_available, rc) ==
    LET f == SansSerifList(m, system_fonts_available, rc) IN
    Styled(f.m, Sizes(f.rc, "8", "10", "9", "8", "1.0"))

\* ApplyIeee without the line that turns the grid on.
ApplyIeee_NoGrid(m, system_fonts_available, rc) ==
    LET f == FontList(m, "font.serif", system_fonts_available,
                      <<"Times New Roman", "Times", "Tinos", "DejaVu Serif">>,
                      "Tinos", <<"Tinos", "DejaVu Serif">>,
                      <<"DejaVu Serif", "serif">>,
                      [rc EXCEPT !["font.family"] = "serif"])
    IN  Styled(f.m, [Sizes(f.rc, "8", "9", "9", "8", "1.0")
                        EXCEPT !["grid.alpha"] = "0.3",
                               !["grid.linewidth"] = "0.5",
                               !["grid.linestyle"] = "--"])

\* use, step 4, style 'ieee'
ApplyIeee(m, system_fonts_available, rc) ==
    LET f == FontList(m, "font.serif", system_fonts_available,
                      <<"Times New Roman", "Times", "Tinos", "DejaVu Serif">>,
                      "Tinos", <<"Tinos", "DejaVu Serif">>,
                      <<"DejaVu Serif", "serif">>,
                      [rc EXCEPT !["font.family"] = "serif"])
    IN  Styled(f.m, [Sizes(f.rc, "8", "9", "9", "8", "1.0")
                        EXCEPT !["axes.grid"] = TRUE,
                               !["grid.alpha"] = "0.3",
                               !["grid.linewidth"] = "0.5",
                               !["grid.linestyle"] = "--"])

\* ApplyUnknown that also writes the sizes of the default style, 'nature'.
ApplyUnknown_WithSizes(m, system_fonts_available, rc) ==
    LET f == FontList(m, "font.sans-serif", system_fonts_available,
                      <<"Arial", "Helvetica", "Arimo", "sans-serif">>,
                      "Arimo", <<"Arimo", "sans-serif">>,
                      <<"sans-serif">>,
                      [rc EXCEPT !["font.family"] = "sans-serif"])
    IN  Styled(f.m, Sizes(f.rc, "7", "8", "7", "6", "0.5"))

\* use, step 4, any other style
ApplyUnknown(m, system_fonts_available, rc) ==
    FontList(m, "font.sans-serif", system_fonts_available,
             <<"Arial", "Helvetica", "Arimo", "sans-serif">>,
             "Arimo", <<"Arimo", "sans-serif">>,
             <<"sans-serif">>,
             [rc EXCEPT !["font.family"] = "sans-serif"])

\* use, step 4: the outcomes it can have
ApplyStyle(m, style, system_fonts_available, rc) ==
    IF style = "zh" THEN ApplyChinese(m, rc)
    ELSE IF style = "nature" THEN {ApplyNature(m, system_fonts_available, rc)}
    ELSE IF style = "cell" THEN {ApplyCell(m, system_fonts_available, rc)}
    ELSE IF style = "science" THEN {ApplyScience(m, system_fonts_available, rc)}
    ELSE IF style = "ieee" THEN {ApplyIeee(m, system_fonts_available, rc)}
    ELSE {ApplyUnknown(m, system_fonts_available, rc)}

---------------------------------------------------------------------------
(* get_style_info                                                          *)

\* GetStyleInfo that reports the font lists whole.
GetStyleInfo_WholeLists(rc) ==
    [family     |-> rc["font.family"],
     pdf        |-> rc["pdf.fonttype"],
     size       |-> rc["font.size"],
     sans_serif |-> rc["font.sans-serif"],
     serif      |-> rc["font.serif"]]

GetStyleInfo(rc) ==
    [family     |-> rc["font.family"],
     pdf        |-> rc["pdf.fonttype"],
     size       |-> rc["font.size"],
     sans_serif |-> IF Len(rc["font.sans-serif"]) > 0 THEN Take(rc["font.sans-serif"], 3) ELSE <<>>,
     serif      |-> IF Len(rc["font.serif"]) > 0 THEN Take(rc["font.serif"], 3) ELSE <<>>]

---------------------------------------------------------------------------
(* The calls                                                               *)

\* the number of calls explored from the initial state
MaxCalls == 3

\* the mapping get_style_info returns; here, before it has been asked
NoInfo == [family |-> "", pdf |-> 0, size |-> "", sans_serif |-> <<>>, serif |-> <<>>]

\* A call and its outcome.  For use, font_family is the family step 1 called
\* _register_bundled_fonts for, and repeated tells that the call before was
\* the same call of use, and returned.
NoCall ==
    [op |-> "none", style |-> PyNone, dpi |-> PyNone, font_names |-> List(<<>>),
     font_family |-> "", raised |-> "none", result |-> FALSE, cached |-> FALSE,
     enums |-> 0, registered_count |-> 0, skipped_count |-> 0,
     info |-> NoInfo, repeated |-> FALSE]

\* use(style, dpi)
Use(style, dpi) ==
    /\ calls < MaxCalls
    /\ calls' = calls + 1
    /\ LET raised == Validate(style, dpi)
           call   == [NoCall EXCEPT !.op = "use", !.style = style, !.dpi = dpi,
                                    !.repeated = /\ last.op = "use"
                                                 /\ last.raised = "none"
                                                 /\ last.style = style
                                                 /\ last.dpi = dpi]
       IN
       IF raised # "none"
       THEN /\ last' = [call EXCEPT !.raised = raised]
            /\ UNCHANGED <<rcParams, font_availability_cache, registered_bundled_fonts,
                           ttflist, host, retina>>
       ELSE
       LET s  == LowerStrip(style.s)
           r1 == ResolveFonts(Module(font_availability_cache, registered_bundled_fonts, ttflist), s)
           rc == BaseConfiguration(ConfigureVectorOutput(rcParams), IntOf(dpi))
       IN  \E r4 \in ApplyStyle(r1.m, s, r1.system_fonts_available, rc) :
               /\ rcParams' = r4.rc
               /\ font_availability_cache' = r4.m.cache
               /\ registered_bundled_fonts' = r4.m.registered
               /\ ttflist' = r4.m.ttflist
               /\ retina' = ConfigureJupyterRetina(retina)
               /\ last' = [call EXCEPT !.result = r1.system_fonts_available,
                                       !.font_family = r1.font_family,
                                       !.enums = r4.m.enums]
               /\ UNCHANGED host

\* _check_font_available(font_names)
CheckFont(font_names) ==
    /\ calls < MaxCalls
    /\ calls' = calls + 1
    /\ LET a == CheckFontAvailable(
                    Module(font_availability_cache, registered_bundled_fonts, ttflist),
                    font_names)
       IN  /\ font_availability_cache' = a.m.cache
           /\ last' = [NoCall EXCEPT !.op = "check", !.font_names = font_names,
                                     !.result = a.result, !.cached = a.cached,
                                     !.enums = a.m.enums]
           /\ UNCHANGED <<rcParams, registered_bundled_fonts, ttflist, host, retina>>

\* _register_bundled_fonts(font_family)
Register(font_family) ==
    /\ calls < MaxCalls
    /\ calls' = calls + 1
    /\ LET r == RegisterBundledFonts(
                    Module(font_availability_cache, registered_bundled_fonts, ttflist),
                    font_family)
       IN  /\ font_availability_cache' = r.m.cache
           /\ registered_bundled_fonts' = r.m.registered
           /\ ttflist' = r.m.ttflist
           /\ last' = [NoCall EXCEPT !.op = "register", !.font_family = font_family,
                                     !.registered_count = r.registered_count,
                                     !.skipped_count = r.skipped_count]
           /\ UNCHANGED <<rcParams, host, retina>>

\* get_style_info()
StyleInfo ==
    /\ calls < MaxCalls
    /\ calls' = calls + 1
    /\ last' = [NoCall EXCEPT !.op = "info", !.info = GetStyleInfo(rcParams)]
    /\ UNCHANGED <<rcParams, font_availability_cache, registered_bundled_fonts,
                   ttflist, host, retina>>

---------------------------------------------------------------------------
(* The inputs and the environments explored                                *)

RecognizedStyles == {"nature", "cell", "science", "ieee", "zh"}

\* use(style, dpi): the recognized styles, each with a dpi of the valid range
\* (its ends, a float to truncate), a style to normalize, an unknown style,
\* and an invalid argument of each kind.
UseInputs ==
    {<<PyStr("nature"), PyInt(300)>>, <<PyStr("cell"), PyInt(50)>>,
     <<PyStr("science"), PyFloat(20009)>>, <<PyStr("ieee"), PyInt(300)>>,
     <<PyStr("zh"), PyInt(2000)>>, <<PyStr(" Nature "), PyFloat(509)>>,
     <<PyStr("IEEE"), PyInt(2000)>>, <<PyStr("xyz"), PyInt(300)>>}
    \cup {<<PyInt(123), PyInt(300)>>, <<PyStr("  "), PyInt(300)>>,
          <<PyStr("nature"), PyInt(49)>>, <<PyStr("ieee"), PyInt(2001)>>,
          <<PyStr("zh"), PyFloat(499)>>, <<PyStr("cell"), PyStr("nature")>>,
          <<PyStr("science"), PyFloatNaN>>}

\* _check_font_available(font_names)
FontNamesInputs ==
    {List(<<"Arial", "Helvetica">>), List(<<"Helvetica", "Arial">>),
     List(<<" Arimo ", None>>), List(<<"Tinos", "Noto Sans SC">>),
     List(<<>>), List(<<None>>), List(<<"  ", "">>)}

\* _register_bundled_fonts(font_family)
FontFamilyInputs == {"sans-serif", "serif", "chinese", "all"}

\* The fonts installed on the system, in the font manager's order.
SystemFontLists ==
    {<<>>, <<"Helvetica">>, <<"Arial", "Times New Roman">>,
     <<"SimHei">>, <<"KaiTi", "SimHei", "PingFang SC">>}

Arimo_Regular == FontFile("Arimo-Regular", TRUE, "ok", "Arimo")
Arimo_Bold    == FontFile("Arimo-Bold", TRUE, "ok", "Arimo")
Tinos_Regular == FontFile("Tinos-Regular", TRUE, "ok", "Tinos")
NotoSansSC    == FontFile(NOTOSANSSC_STEM, TRUE, "ok", "Noto Sans SC")
Lato_Regular  == FontFile("Lato-Regular", TRUE, "ok", "Lato")

\* FONT_DIR.glob("*.ttf") with every bundled file intact
BundledFiles == <<Arimo_Regular, Arimo_Bold, Tinos_Regular, NotoSansSC, Lato_Regular>>

Reverse(seq) == [i \in 1..Len(seq) |-> seq[Len(seq) + 1 - i]]

\* the listing with file i replaced
With(i, file) == [BundledFiles EXCEPT ![i] = file]

\* The listings of the fonts directory: the other scan order, and files that
\* cannot be registered, met before or after the files that can.
FontDirs ==
    {Reverse(BundledFiles),
     With(1, [Arimo_Regular EXCEPT !.load = "OSError"]),
     Reverse(With(1, [Arimo_Regular EXCEPT !.load = "OSError"])),
     [With(1, [Arimo_Regular EXCEPT !.load = "OSError"])
         EXCEPT ![2] = [Arimo_Bold EXCEPT !.load = "ValueError"]],
     With(3, [Tinos_Regular EXCEPT !.load = "Exception"]),
     With(4, [NotoSansSC EXCEPT !.load = "ValueError"]),
     Reverse(With(3, [Tinos_Regular EXCEPT !.is_file = FALSE]))}

Host(fm, dir_exists, font_dir, fontTools, ipython) ==
    [fm |-> fm, dir_exists |-> dir_exists, font_dir |-> font_dir,
     fontTools |-> fontTools, ipython |-> ipython]

\* The environments: every system font list with the bundled files intact;
\* with no system font, every listing; and the host failures.
Environments ==
    {<<Host("ok", TRUE, BundledFiles, TRUE, "absent"), fonts>> : fonts \in SystemFontLists}
    \cup {<<Host("ok", TRUE, d, TRUE, "shell"), <<>> >> : d \in FontDirs}
    \cup {<<Host("ok", FALSE, <<>>, TRUE, "absent"), <<>> >>,
          <<Host("ok", TRUE, BundledFiles, FALSE, "notebook"), <<>> >>,
          <<Host("ok", TRUE, With(4, [NotoSansSC EXCEPT !.load = "OSError"]), TRUE, "notebook"),
            <<"Noto Sans SC Medium">> >>,
          <<Host("none", TRUE, BundledFiles, TRUE, "absent"), <<>> >>,
          <<Host("broken", TRUE, BundledFiles, TRUE, "absent"), <<>> >>}

Init ==
    /\ rcParams = DefaultRcParams
    /\ font_availability_cache = EmptyCache
    /\ registered_bundled_fonts = {}
    /\ \E e \in Environments : host = e[1] /\ ttflist = e[2]
    /\ retina = FALSE
    /\ last = NoCall
    /\ calls = 0

Next ==
    \/ \E args \in UseInputs : Use(args[1], args[2])
    \/ \E font_names \in FontNamesInputs : CheckFont(font_names)
    \/ \E font_family \in FontFamilyInputs : Register(font_family)
    \/ StyleInfo

Spec == Init /\ [][Next]_vars

---------------------------------------------------------------------------
(* Properties                                                              *)

UseReturned == last.op = "use" /\ last.raised = "none"

\* the style use() worked with, after style.lower().strip()
LastStyle == LowerStrip(last.style.s)

\* C1. Whenever use is called with an invalid argument (a style that is not a
\* string or is blank after trimming, a dpi that is not a number or whose
\* integer part is below 50 or above 2000), it raises, and rcParams, the
\* availability cache, the registered-font set and the host font list are
\* as they were before the call.
C1_InvalidArgument(style, dpi) ==
    \/ style.type # "str"
    \/ Strip(style.s) = ""
    \/ dpi.type \notin {"int", "float"}
    \/ dpi.tenths < 500
    \/ dpi.tenths >= 20010

C1_ValidateThenAct ==
    [][(last'.op = "use" /\ C1_InvalidArgument(last'.style, last'.dpi))
          => /\ last'.raised # "none"
             /\ UNCHANGED <<rcParams, font_availability_cache,
                            registered_bundled_fonts, ttflist>>]_vars

\* A call with dpi 2001 was rejected after an earlier call had written
\* rcParams and registered bundled fonts.
C1_Witness ==
    /\ last.op = "use" /\ last.raised = "ValueError" /\ last.dpi = PyInt(2001)
    /\ rcParams["figure.dpi"] = 300
    /\ registered_bundled_fonts # {}

C3_SecondCallAfterFirst ==
    /\ last.op = "check" /\ last.font_names = List(<<"Arial", "Helvetica">>)
    /\ last'.op = "check" /\ last'.font_names = List(<<"Helvetica", "Arial">>)
    /\ calls' = calls + 1

C3_SecondCallFromCache ==
    /\ last'.cached
    /\ last'.enums = 0
    /\ last'.result = last.result

RegisteredFiles ==
    {i \in 1..Len(host.font_dir) : host.font_dir[i].stem \in registered_bundled_fonts}

\* C4. When a call of _register_bundled_fonts newly registers at least one
\* file, the availability cache is cleared; and an availability query for a
\* list that contains the name of a registered font returns True, whatever
\* the same query returned, and cached, before the registration.
C4_QueryNamesRegisteredFont ==
    /\ last.op = "check" /\ last.font_names.is_list
    /\ \E i \in RegisteredFiles :
          host.font_dir[i].family \in Range(NormalizeNames(last.font_names.items))

C4_RegistrationInvalidatesCache ==
    [][/\ (last'.op = "register" /\ last'.registered_count > 0)
             => font_availability_cache' = EmptyCache
       /\ C4_QueryNamesRegisteredFont' => last'.result]_vars

\* A query naming Tinos is answered True by the host, not the cache, as the
\* third call, after a registration; before any registration the host had no
\* such font.
C4_Witness ==
    /\ last.op = "check" /\ last.font_names = List(<<"Tinos", "Noto Sans SC">>)
    /\ last.result /\ ~last.cached /\ last.enums = 1
    /\ calls = 3
    /\ rcParams = DefaultRcParams
    /\ \E i \in RegisteredFiles : host.font_dir[i].family = "Tinos"

\* The files of the listing that a call for font_family selects.
Matching(font_family) ==
    {i \in 1..Len(host.font_dir) :
        MatchesFamily(host.font_dir[i], FontPrefixes(font_family))}

C5_SecondRegistration ==
    /\ last.op = "register"
    /\ last'.op = "register" /\ last'.font_family = last.font_family
    /\ calls' = calls + 1

C5_NothingChanges ==
    /\ last'.registered_count = 0
    /\ UNCHANGED <<registered_bundled_fonts, ttflist, font_availability_cache>>

\* C5 as stated. Calling _register_bundled_fonts twice in a row with the same
\* family makes the second call register no file, every matching file being
\* skipped as already registered, and leaves the registered-font set, the
\* host font list and the availability cache unchanged.
C5_Original ==
    [][C5_SecondRegistration
          => /\ C5_NothingChanges
             /\ last'.skipped_count = Cardinality(Matching(last'.font_family))]_vars

\* C5, amended. The second call registers no file and changes nothing; it
\* skips as already registered exactly the matching files that are in the
\* registered-font set, and tries again, in vain, those whose registration
\* failed.
C5_RegistrationIdempotent ==
    [][C5_SecondRegistration
          => /\ C5_NothingChanges
             /\ last'.skipped_count =
                   IF host.dir_exists /\ host.fm # "none"
                   THEN Cardinality(Matching(last'.font_family) \cap RegisteredFiles')
                   ELSE 0]_vars

\* The second register('all') skipped the three files the first registered;
\* the fourth matching file cannot be registered.
C5_Witness ==
    /\ last.op = "register" /\ last.font_family = "all"
    /\ last.registered_count = 0 /\ last.skipped_count = 3
    /\ Cardinality(Matching("all")) = 4
    /\ calls = 2

\* C6 as stated. After use('nature', 300) returns, get_style_info() reports
\* the family sans-serif, the base size 7, and a sans-serif list whose first
\* entries are Arial, Helvetica, Arimo in that order of preference, in every
\* state of the system fonts and of the bundled fonts' registration.
C6_NatureApplied ==
    UseReturned /\ LastStyle = "nature" /\ IntOf(last.dpi) = 300

\* seq lists elements of the preference order only, in that order
RECURSIVE InPreferenceOrder(_, _)
InPreferenceOrder(seq, preference) ==
    IF seq = <<>> THEN TRUE
    ELSE IF preference = <<>> THEN FALSE
    ELSE IF Head(seq) = Head(preference)
    THEN InPreferenceOrder(Tail(seq), Tail(preference))
    ELSE InPreferenceOrder(seq, Tail(preference))

C6_Original ==
    C6_NatureApplied
    => LET info == GetStyleInfo(rcParams)
           preferred == SelectSeq(info.sans_serif,
                                  LAMBDA n : n \in {"Arial", "Helvetica", "Arimo"})
       IN  /\ info.family = "sans-serif"
           /\ info.size = "7"
           /\ preferred # <<>>
           /\ info.sans_serif[1] = preferred[1]
           /\ InPreferenceOrder(preferred, <<"Arial", "Helvetica", "Arimo">>)

\* C6, amended. After use('nature', 300) returns, get_style_info() reports
\* the family sans-serif, the base size 7, and the sans-serif list
\* Arial, Helvetica, Arimo when the host has Arial or Helvetica, the list
\* Arimo, DejaVu Sans when it has neither but has Arimo, and otherwise (no
\* bundled Arimo could be registered) DejaVu Sans, sans-serif.
C6_NatureStyleInfo ==
    C6_NatureApplied
    => LET info == GetStyleInfo(rcParams)
           has(names) == host.fm = "ok" /\ names \cap Range(ttflist) # {}
       IN  /\ info.family = "sans-serif"
           /\ info.size = "7"
           /\ info.sans_serif =
                 IF has({"Arial", "Helvetica"}) THEN <<"Arial", "Helvetica", "Arimo">>
                 ELSE IF has({"Arimo"}) THEN <<"Arimo", "DejaVu Sans">>
                 ELSE <<"DejaVu Sans", "sans-serif">>

\* use('nature', 300) returned on a host without Arial and Helvetica, where
\* the bundled Arimo was registered.
C6_Witness ==
    /\ C6_NatureApplied
    /\ GetStyleInfo(rcParams).sans_serif = <<"Arimo", "DejaVu Sans">>
    /\ "Arimo-Bold" \in registered_bundled_fonts

\* C7. After use('ieee', dpi) returns, the grid is on, dashed, with alpha
\* 0.3, and the font family is serif, whatever styles were applied before.
C7_IeeeGridAndFamily ==
    (UseReturned /\ LastStyle = "ieee")
    => /\ rcParams["axes.grid"] = TRUE
       /\ rcParams["grid.linestyle"] = "--"
       /\ rcParams["grid.alpha"] = "0.3"
       /\ rcParams["font.family"] = "serif"

\* use('ieee') returned as the third call, after a call had applied a
\* sans-serif style of another size.
C7_Witness ==
    /\ UseReturned /\ LastStyle = "ieee" /\ calls = 3
    /\ rcParams["axes.grid"] = TRUE
    /\ rcParams["font.sans-serif"] # DefaultRcParams["font.sans-serif"]

SizeKeys ==
    {"font.size", "axes.labelsize", "xtick.labelsize", "ytick.labelsize",
     "legend.fontsize", "axes.linewidth", "lines.linewidth"}

\* C8. use with an unrecognized, non-blank style and a valid dpi returns,
\* sets the family to sans-serif with a minimal fallback list, and leaves
\* every size and line width at the value it had after step 3 of the call,
\* which is the value it had before the call.
C8_UnknownStyleKeepsSizes ==
    [][(/\ last'.op = "use"
        /\ last'.style.type = "str" /\ Strip(last'.style.s) # ""
        /\ LowerStrip(last'.style.s) \notin RecognizedStyles
        /\ ~C1_InvalidArgument(last'.style, last'.dpi))
          => /\ last'.raised = "none"
             /\ rcParams'["font.family"] = "sans-serif"
             /\ rcParams'["font.sans-serif"] \in
                   {<<"Arial", "Helvetica", "Arimo", "sans-serif">>,
                    <<"Arimo", "sans-serif">>, <<"sans-serif">>}
             /\ \A key \in SizeKeys :
                   /\ rcParams'[key] =
                         BaseConfiguration(ConfigureVectorOutput(rcParams), IntOf(last'.dpi))[key]
                   /\ rcParams'[key] = rcParams[key]]_vars

\* use('xyz') returned after use('nature') had set the sizes.
C8_Witness ==
    /\ UseReturned /\ LastStyle = "xyz"
    /\ rcParams["font.size"] = "7" /\ rcParams["axes.linewidth"] = "0.5"
    /\ rcParams["font.sans-serif"] = <<"Arimo", "sans-serif">>

\* the file can be registered
Loadable(font_path) == font_path.is_file /\ font_path.load = "ok"

\* C9. A font file whose registration fails is skipped without an error
\* reaching the caller, is never in the registered-font set, and does not
\* keep any other matching file of the same call from being registered,
\* whatever the scan order.
C9_BadFileSkipped ==
    /\ \A i \in RegisteredFiles : Loadable(host.font_dir[i])
    /\ (last.op = "register" /\ host.dir_exists /\ host.fm = "ok")
          => /\ last.raised = "none"
             /\ \A i \in Matching(last.font_family) :
                   Loadable(host.font_dir[i]) => i \in RegisteredFiles

\* A call has registered a file scanned after a matching file that failed.
C9_Witness ==
    /\ last.op = "register" /\ last.registered_count > 0
    /\ \E i, j \in Matching(last.font_family) :
          /\ i < j
          /\ ~Loadable(host.font_dir[i])
          /\ host.font_dir[j].stem \in registered_bundled_fonts

VectorOutputEditable ==
    /\ rcParams["pdf.fonttype"] = 42
    /\ rcParams["ps.fonttype"] = 42
    /\ rcParams["svg.fonttype"] = "none"

\* C10. After any call of use that returns, whatever the style, the PDF and
\* PostScript font types are 42 and the SVG font type is 'none'; and once
\* this holds it holds after every later call.
C10_VectorOutputStaysEditable ==
    [][/\ UseReturned' => VectorOutputEditable'
       /\ VectorOutputEditable => VectorOutputEditable']_vars

\* The settings hold two calls after the use of an unknown style set them.
C10_Witness ==
    /\ VectorOutputEditable
    /\ last.op = "register" /\ calls = 3
    /\ rcParams["font.sans-serif"] = <<"sans-serif">>

\* use is called again with the arguments of the call before, which returned.
C11_SecondUse ==
    /\ UseReturned
    /\ last'.op = "use" /\ last'.style = last.style /\ last'.dpi = last.dpi
    /\ calls' = calls + 1

\* C11. Calling use(style, dpi) a second time in a row, with the same valid
\* arguments and the same system fonts and bundled files, returns and leaves
\* rcParams, and the retina setting of the notebook, exactly as the first call
\* left them; also when the first call registered bundled fonts and cleared
\* the availability cache.
C11_ApplyIdempotent ==
    [][C11_SecondUse
          => /\ last'.raised = "none"
             /\ rcParams' = rcParams
             /\ retina' = retina]_vars

\* use('nature') returned twice in a row on a host without Arial and
\* Helvetica: the first call registered the Arimo files and cleared the cache,
\* the second called the registrar again and found Arimo in the cache.
C11_Witness ==
    /\ UseReturned /\ last.repeated /\ LastStyle = "nature"
    /\ calls = 2
    /\ last.font_family = "sans-serif" /\ last.enums = 1
    /\ {"Arimo-Regular", "Arimo-Bold"} \subseteq registered_bundled_fonts
    /\ DOMAIN font_availability_cache = {<<"Arial", "Helvetica">>, <<"Arimo">>}
    /\ rcParams["font.sans-serif"] = <<"Arimo", "DejaVu Sans">>

\* reported holds the first min(3, length) entries of configured
C12_FirstThree(reported, configured) ==
    /\ Len(reported) = IF Len(configured) < 3 THEN Len(configured) ELSE 3
    /\ \A i \in 1..Len(reported) : reported[i] = configured[i]

\* C12. get_style_info() returns a mapping without raising, in every state
\* it is called in; it changes neither rcParams, the availability cache, the
\* registered-font set nor the host font list; it reports the family, the PDF
\* font type and the base size rcParams holds, and as sans-serif and serif
\* lists the first min(3, length) entries of the lists rcParams holds.
C12_StyleInfoReadOnly ==
    [][last'.op = "info"
          => /\ last'.raised = "none"
             /\ UNCHANGED <<rcParams, font_availability_cache,
                            registered_bundled_fonts, ttflist>>
             /\ last'.info.family = rcParams["font.family"]
             /\ last'.info.pdf = rcParams["pdf.fonttype"]
             /\ last'.info.size = rcParams["font.size"]
             /\ C12_FirstThree(last'.info.sans_serif, rcParams["font.sans-serif"])
             /\ C12_FirstThree(last'.info.serif, rcParams["font.serif"])]_vars

\* get_style_info() was called after use had left a sans-serif list of two
\* entries and a serif list of four: it reports two and three.
C12_Witness ==
    /\ last.op = "info"
    /\ Len(rcParams["font.sans-serif"]) = 2 /\ Len(rcParams["font.serif"]) = 4
    /\ last.info.sans_serif = <<"DejaVu Sans", "sans-serif">>
    /\ last.info.serif = <<"DejaVu Serif", "Bitstream Vera Serif", "Computer Modern Roman">>
    /\ last.info.pdf = 42

\* font_names is a list that is empty or holds only strings that are blank
\* once trimmed.
C13_EmptyOrAllBlank(font_names) ==
    /\ font_names.is_list
    /\ \A i \in 1..Len(font_names.items) :
          font_names.items[i] # None /\ Strip(font_names.items[i]) = ""

\* C13. _check_font_available called with an empty list, or with a list
\* whose entries are all empty or whitespace-only strings, returns False,
\* adds no entry to the availability cache and does not ask the host for its
\* font list: the blank entries are dropped after trimming.
C13_BlankListsLeaveCacheAlone ==
    [][(last'.op = "check" /\ C13_EmptyOrAllBlank(last'.font_names))
          => /\ ~last'.result
             /\ font_availability_cache' = font_availability_cache
             /\ last'.enums = 0]_vars

\* the system fonts a recognized style prefers
C14_Preferred(style) ==
    IF style = "zh" THEN Range(chinese_font_candidates)
    ELSE IF style = "ieee" THEN {"Times New Roman", "Times"}
    ELSE {"Arial", "Helvetica"}

\* the bundled family that stands in for them, and the prefix of its files
C14_Family(style) ==
    IF style = "zh" THEN "chinese" ELSE IF style = "ieee" THEN "serif" ELSE "sans-serif"

C14_Prefix(style) ==
    IF style = "zh" THEN "NotoSansSC" ELSE IF style = "ieee" THEN "Tinos" ELSE "Arimo"

\* C14. In a call of use with a recognized style that returns, step 1 calls
\* _register_bundled_fonts exactly when none of the style's preferred system
\* fonts can be found in the host font list, and then for the style's bundled
\* family only: every file the call registers has that family's prefix
\* (nature, cell, science: Arimo; ieee: Tinos; zh: NotoSansSC).  When a
\* preferred system font is there, the registered-font set and the host font
\* list are left unchanged.
C14_RegistrarOnlyWhenNeeded ==
    [][(/\ last'.op = "use" /\ last'.raised = "none"
        /\ LowerStrip(last'.style.s) \in RecognizedStyles)
          => LET style == LowerStrip(last'.style.s)
                 available == /\ host.fm = "ok"
                              /\ C14_Preferred(style) \cap Range(ttflist) # {}
             IN  /\ last'.font_family = IF available THEN None ELSE C14_Family(style)
                 /\ available => UNCHANGED <<registered_bundled_fonts, ttflist>>
                 /\ registered_bundled_fonts \subseteq registered_bundled_fonts'
                 /\ \A stem \in registered_bundled_fonts' \ registered_bundled_fonts :
                       StartsWith(stem, C14_Prefix(style))
                 /\ Len(ttflist') = Len(ttflist)
                        + Cardinality(registered_bundled_fonts' \ registered_bundled_fonts)
                 /\ SubSeq(ttflist', 1, Len(ttflist)) = ttflist]_vars

\* use('ieee') on a host that has Helvetica but no Times registered the
\* bundled Tinos file and no other.
C14_Witness ==
    /\ UseReturned /\ LastStyle = "ieee" /\ calls = 1
    /\ last.font_family = "serif"
    /\ registered_bundled_fonts = {"Tinos-Regular"}
    /\ ttflist = <<"Helvetica", "Tinos">>

\* C15. In every reachable state each entry of the availability cache is the
\* true answer for its key: True exactly when one of the key's names is in
\* the host font list as it is now.  A False returned because the font
\* manager is uninitialized or its font list cannot be read is never stored:
\* on such a host the cache stays empty.
C15_CacheCoherent ==
    /\ \A cache_key \in DOMAIN font_availability_cache :
          font_availability_cache[cache_key]
             = (\E i \in 1..Len(cache_key) : cache_key[i] \in Range(ttflist))
    /\ host.fm # "ok" => font_availability_cache = EmptyCache

\* A query for Arimo, the third call, was answered True by the host and
\* stored; a registration before it had added Arimo and emptied the cache.
C15_Witness ==
    /\ last.op = "check" /\ last.font_names = List(<<" Arimo ", None>>)
    /\ last.result /\ ~last.cached /\ calls = 3
    /\ font_availability_cache = (<<"Arimo">> :> TRUE)
    /\ "Arimo-Regular" \in registered_bundled_fonts
    /\ rcParams = DefaultRcParams

\* The settings the last call decides: the resolution, the family and its
\* font list, the sizes, the line widths and the grid.
C16_Keys(style) ==
    {"figure.dpi", "savefig.dpi", "font.family", "axes.grid"}
    \cup {IF style = "ieee" THEN "font.serif" ELSE "font.sans-serif"}
    \cup SizeKeys

\* The fonts of the system: the host font list without the bundled fonts
\* registered since, each of which was added at its end.
C16_SystemFonts ==
    SubSeq(ttflist, 1, Len(ttflist) - Cardinality(registered_bundled_fonts))

\* What use(style, dpi) leaves in rcParams as the first call of a session on
\* this host: matplotlib's defaults, nothing cached, nothing registered.
C16_FirstCall(style, dpi) ==
    LET r1 == ResolveFonts(Module(EmptyCache, {}, C16_SystemFonts), style)
        rc == BaseConfiguration(ConfigureVectorOutput(DefaultRcParams), dpi)
    IN  {r4.rc : r4 \in ApplyStyle(r1.m, style, r1.system_fonts_available, rc)}

\* C16. After any sequence of calls whose last is a use(s, d) that returned,
\* with s a recognized style, the resolution, the font family, the font list
\* of that family, the base, label, tick and legend sizes, the axis and line
\* widths and the grid switch are what use(s, d) gives as the first call on
\* the same host: they depend on s, d and the system and bundled fonts, and
\* not on the styles and resolutions applied, or the fonts registered, before.
C16_LastCallWins ==
    (UseReturned /\ LastStyle \in RecognizedStyles)
    => \E rc \in C16_FirstCall(LastStyle, IntOf(last.dpi)) :
          \A key \in C16_Keys(LastStyle) : rcParams[key] = rc[key]

\* use('nature') returned after use('ieee'): the grid is off, though the
\* grid's alpha and the serif list are still those ieee set.
C16_Witness ==
    /\ UseReturned /\ LastStyle = "nature"
    /\ rcParams["axes.grid"] = FALSE
    /\ rcParams["grid.alpha"] = "0.3"
    /\ rcParams["font.serif"] = <<"Tinos", "DejaVu Serif">>
    /\ rcParams["font.sans-serif"] = <<"Arimo", "DejaVu Sans">>

====
